---- MODULE Spec2Model ----
(***************************************************************************)
(* Model of rucio's portable column types (lib/rucio/db/sqla/types.py) and *)
(* of the distance store operations (lib/rucio/core/distance.py).          *)
(*                                                                         *)
(* Python values are tagged records: [t |-> "None"], [t |-> "str", s],     *)
(* [t |-> "bool", b], [t |-> "int", n], [t |-> "UUID", int],               *)
(* [t |-> "bytes", bs], [t |-> "InternalAccount", internal],               *)
(* [t |-> "InternalScope", internal]; a call that raises yields            *)
(* [t |-> "raise", exc].  A str is a sequence of one-character strings.    *)
(***************************************************************************)
EXTENDS Integers, Sequences, FiniteSets, TLC

VARIABLES codec, impl, dialect, value, pc, bound, result, shape, distances, call

vars == <<codec, impl, dialect, value, pc, bound, result, shape, distances, call>>

codecVars == <<codec, impl, dialect, value, pc, bound, result, shape>>

\* ------------------------------------------------------------------ bounds

\* Width of an identifier in bytes.  uuid.UUID is 16 bytes wide; the model
\* keeps the same layout (two hex digits per byte, a dash between groups)
\* at a width whose strings can be enumerated.
NBytes == 2

\* Longest str passed as an identifier.
MaxStrLen == 5

\* Largest int passed where a str or bool is expected.
MaxInt == 11

\* Largest distance between two RSEs.
MaxDistance == 1

\* ----------------------------------------------------------- Python values

None == [t |-> "None"]

StrObj(s) == [t |-> "str", s |-> s]

BoolObj(b) == [t |-> "bool", b |-> b]

IntObj(n) == [t |-> "int", n |-> n]

UUIDObj(n) == [t |-> "UUID", int |-> n]

Bytes(bs) == [t |-> "bytes", bs |-> bs]

Raise(e) == [t |-> "raise", exc |-> e]

IsRaise(v) == v.t = "raise"

\* The number of hex digits of an identifier.
HexLen == 2 * NBytes

HexDigits == <<"0", "1", "2", "3", "4", "5", "6", "7", "8", "9", "a", "b", "c", "d", "e", "f">>

UpperLetters == <<"A", "B", "C", "D", "E", "F", "G", "H", "I", "J", "K", "L", "M", "N", "O", "P", "Q", "R", "S", "T", "U", "V", "W", "X", "Y", "Z">>

LowerLetters == <<"a", "b", "c", "d", "e", "f", "g", "h", "i", "j", "k", "l", "m", "n", "o", "p", "q", "r", "s", "t", "u", "v", "w", "x", "y", "z">>

IndexOf(seq, c) == CHOOSE i \in 1..Len(seq) : seq[i] = c

Has(seq, c) == \E i \in 1..Len(seq) : seq[i] = c

\* str.lower() on one character
LowerChar(c) == IF Has(UpperLetters, c) THEN LowerLetters[IndexOf(UpperLetters, c)] ELSE c

UpperChar(c) == IF Has(LowerLetters, c) THEN UpperLetters[IndexOf(LowerLetters, c)] ELSE c

\* str.lower()
Lower(s) == [i \in 1..Len(s) |-> LowerChar(s[i])]

\* str.replace('-', '')
RemoveDashes(s) == SelectSeq(s, LAMBDA c : c # "-")

IsHexChar(c) == Has(HexDigits, LowerChar(c))

HexVal(c) == IndexOf(HexDigits, LowerChar(c)) - 1

RECURSIVE HexToInt(_)
\* int(hex, 16) of a string of hex digits
HexToInt(s) == IF Len(s) = 0 THEN 0 ELSE 16 * HexToInt(SubSeq(s, 1, Len(s) - 1)) + HexVal(s[Len(s)])

RECURSIVE IntToHex(_)
\* '%x' % n
IntToHex(n) == IF n < 16 THEN <<HexDigits[n + 1]>> ELSE IntToHex(n \div 16) \o <<HexDigits[(n % 16) + 1]>>

RECURSIVE ZeroPad(_, _)
ZeroPad(s, width) == IF Len(s) >= width THEN s ELSE ZeroPad(<<"0">> \o s, width)

\* '%.32x' % n: at least HexLen digits, zero padded on the left
PadHex(n) == ZeroPad(IntToHex(n), HexLen)

RECURSIVE IntToDec(_)
\* str(n) of a non-negative int
IntToDec(n) == IF n < 10 THEN <<HexDigits[n + 1]>> ELSE IntToDec(n \div 10) \o <<HexDigits[(n % 10) + 1]>>

\* uuid.UUID(hex): dashes are dropped, the rest must be HexLen hex digits
UUIDFromHex(s) ==
  LET hex == RemoveDashes(s)
  IN IF Len(hex) # HexLen THEN Raise("ValueError")
     ELSE IF \E i \in 1..Len(hex) : ~IsHexChar(hex[i]) THEN Raise("ValueError")
     ELSE UUIDObj(HexToInt(hex))

\* uuid.UUID(v), the first positional argument being hex: a str is parsed,
\* anything else has no .replace
UUIDCtor(v) == IF v.t = "str" THEN UUIDFromHex(v.s) ELSE IF v.t = "UUID" THEN Raise("AttributeError") ELSE Raise("TypeError")

RECURSIVE BytesToInt(_)
BytesToInt(bs) == IF Len(bs) = 0 THEN 0 ELSE 256 * BytesToInt(SubSeq(bs, 1, Len(bs) - 1)) + bs[Len(bs)]

\* uuid.UUID(bytes=v)
UUIDFromBytes(v) == IF v.t # "bytes" THEN Raise("TypeError") ELSE IF Len(v.bs) # NBytes THEN Raise("ValueError") ELSE UUIDObj(BytesToInt(v.bs))

RECURSIVE IntToBytes(_, _)
IntToBytes(n, k) == IF k = 0 THEN <<>> ELSE IntToBytes(n \div 256, k - 1) \o <<n % 256>>

\* UUID.bytes
UUIDBytes(u) == Bytes(IntToBytes(u.int, NBytes))

RECURSIVE DashGroups(_)
DashGroups(hex) == IF Len(hex) <= 2 THEN hex ELSE SubSeq(hex, 1, 2) \o <<"-">> \o DashGroups(SubSeq(hex, 3, Len(hex)))

\* str(u) of a UUID: lowercase hex digits in dash-separated groups
UUIDStr(u) == DashGroups(PadHex(u.int))

\* str(v)
PyStr(v) ==
  CASE v.t = "str" -> v.s
    [] v.t = "UUID" -> UUIDStr(v)
    [] v.t = "int" -> IntToDec(v.n)
    [] v.t = "bool" -> IF v.b THEN <<"T", "r", "u", "e">> ELSE <<"F", "a", "l", "s", "e">>
    [] OTHER -> <<"N", "o", "n", "e">>

\* ----------------------------------------------------------- column shapes

NoLength == [t |-> "None"]

ColumnType(name, length) == [type |-> name, length |-> length]

\* ------------------------------------------------------------------- GUID

\* GUID.load_dialect_impl with a final branch that tests for sqlite and
\* raises for any other name
GUID_load_dialect_impl_Closed(d) ==
  IF d = "postgresql" THEN ColumnType("UUID", NoLength)
  ELSE IF d = "oracle" THEN ColumnType("RAW", IntObj(16))
  ELSE IF d = "mysql" THEN ColumnType("BINARY", IntObj(16))
  ELSE IF d = "sqlite" THEN ColumnType("CHAR", IntObj(32))
  ELSE Raise("NotImplementedError")

GUID_load_dialect_impl(d) ==
  IF d = "postgresql" THEN ColumnType("UUID", NoLength)
  ELSE IF d = "oracle" THEN ColumnType("RAW", IntObj(16))
  ELSE IF d = "mysql" THEN ColumnType("BINARY", IntObj(16))
  ELSE ColumnType("CHAR", IntObj(32))

\* uuid.UUID(value).bytes
ParsedBytes(v) == LET u == UUIDCtor(v) IN IF IsRaise(u) THEN u ELSE UUIDBytes(u)

\* "%.32x" % uuid.UUID(value).int
ParsedHex(v) == LET u == UUIDCtor(v) IN IF IsRaise(u) THEN u ELSE StrObj(PadHex(u.int))

\* GUID.process_bind_param without the None branch
GUID_process_bind_param_NoNone(v, d) ==
  IF d = "postgresql" THEN StrObj(Lower(PyStr(v)))
  ELSE IF d = "oracle" THEN ParsedBytes(v)
  ELSE IF d = "mysql" THEN ParsedBytes(v)
  ELSE IF v.t # "UUID" THEN ParsedHex(v)
  ELSE StrObj(PadHex(v.int))

GUID_process_bind_param(v, d) ==
  IF v = None THEN v
  ELSE IF d = "postgresql" THEN StrObj(Lower(PyStr(v)))
  ELSE IF d = "oracle" THEN ParsedBytes(v)
  ELSE IF d = "mysql" THEN ParsedBytes(v)
  ELSE IF v.t # "UUID" THEN ParsedHex(v)
  ELSE StrObj(PadHex(v.int))

\* Canonical with the dashes of str(u) left in
Canonical_KeepDashes(u) == IF IsRaise(u) THEN u ELSE StrObj(Lower(UUIDStr(u)))

\* str(u).replace('-', '').lower()
Canonical(u) == IF IsRaise(u) THEN u ELSE StrObj(Lower(RemoveDashes(UUIDStr(u))))

GUID_process_result_value(v, d) ==
  IF v = None THEN v
  ELSE IF d = "oracle" THEN Canonical(IF v.t = "UUID" THEN v ELSE UUIDFromBytes(v))
  ELSE IF d = "mysql" THEN Canonical(IF v.t = "UUID" THEN v ELSE UUIDFromBytes(v))
  ELSE Canonical(IF v.t = "UUID" THEN v ELSE UUIDCtor(v))

\* ---------------------------------------------------------- TypeDecorator

\* TypeDecorator.__init__: the class attribute impl, instantiated with the
\* arguments the column type was constructed with
TypeDecorator_init(implClass, length) == ColumnType(implClass, length)

\* TypeDecorator.load_dialect_impl, which a subclass inherits unless it
\* defines a method of that name: the impl instance
TypeDecorator_load_dialect_impl(self, d) == self

\* ---------------------------------------------------------- BooleanString

\* defined by the class, under a name the storage engine never calls
BooleanString_load_dialect_imp(d) == ColumnType("String", IntObj(255))

\* the class defines no load_dialect_impl: the inherited one answers
BooleanString_load_dialect_impl(self, d) == TypeDecorator_load_dialect_impl(self, d)

TrueStr == <<"t", "r", "u", "e">>

FalseStr == <<"f", "a", "l", "s", "e">>

\* BooleanString.process_bind_param lowering every string it stores
BooleanString_process_bind_param_LowerAll(v, d) ==
  IF v = None THEN v
  ELSE IF v.t = "bool" THEN (IF v.b THEN StrObj(TrueStr) ELSE StrObj(FalseStr))
  ELSE StrObj(Lower(PyStr(v)))

BooleanString_process_bind_param(v, d) ==
  IF v = None THEN v
  ELSE IF v.t = "bool" THEN (IF v.b THEN StrObj(TrueStr) ELSE StrObj(FalseStr))
  ELSE IF v.t = "str" /\ Lower(v.s) = TrueStr THEN StrObj(TrueStr)
  ELSE IF v.t = "str" /\ Lower(v.s) = FalseStr THEN StrObj(FalseStr)
  ELSE StrObj(PyStr(v))

\* BooleanString.process_result_value comparing without .lower()
BooleanString_process_result_value_CaseSensitive(v, d) ==
  IF v = None THEN v
  ELSE IF v.t # "str" THEN Raise("AttributeError")
  ELSE IF v.s = TrueStr THEN BoolObj(TRUE)
  ELSE IF v.s = FalseStr THEN BoolObj(FALSE)
  ELSE v

BooleanString_process_result_value(v, d) ==
  IF v = None THEN v
  ELSE IF v.t # "str" THEN Raise("AttributeError")
  ELSE IF Lower(v.s) = TrueStr THEN BoolObj(TRUE)
  ELSE IF Lower(v.s) = FalseStr THEN BoolObj(FALSE)
  ELSE v

\* ------------------------------------------------------------------- JSON

JSON_load_dialect_impl(d) ==
  IF d = "postgresql" THEN ColumnType("JSONB", NoLength)
  ELSE IF d = "mysql" THEN ColumnType("JSON", NoLength)
  ELSE IF d = "oracle" THEN ColumnType("CLOB", NoLength)
  ELSE ColumnType("String", NoLength)

\* ----------------------------------- InternalAccountString, InternalScopeString

HasInternal(v) == v.t \in {"InternalAccount", "InternalScope"}

InternalAccountString_load_dialect_imp(d) == ColumnType("String", IntObj(255))

InternalAccountString_load_dialect_impl(self, d) == TypeDecorator_load_dialect_impl(self, d)

\* InternalAccountString.process_bind_param storing a plain string as it is
InternalAccountString_process_bind_param_Stringify(v, d) ==
  IF v = None THEN v
  ELSE IF v.t = "str" THEN v
  ELSE IF HasInternal(v) THEN StrObj(v.internal)
  ELSE Raise("AttributeError")

InternalAccountString_process_bind_param(v, d) ==
  IF v = None THEN v
  ELSE IF v.t = "str" THEN Raise("InvalidType")
  ELSE IF HasInternal(v) THEN StrObj(v.internal)
  ELSE Raise("AttributeError")

\* InternalAccount(value, from_external=False)
InternalAccountString_process_result_value(v, d) ==
  IF v = None THEN v
  ELSE [t |-> "InternalAccount", internal |-> v.s]

InternalScopeString_load_dialect_imp(d) == ColumnType("String", IntObj(255))

InternalScopeString_load_dialect_impl(self, d) == TypeDecorator_load_dialect_impl(self, d)

InternalScopeString_process_bind_param(v, d) ==
  IF v = None THEN v
  ELSE IF v.t = "str" THEN Raise("InvalidType")
  ELSE IF HasInternal(v) THEN StrObj(v.internal)
  ELSE Raise("AttributeError")

\* InternalScope(value, from_external=False)
InternalScopeString_process_result_value(v, d) ==
  IF v = None THEN v
  ELSE [t |-> "InternalScope", internal |-> v.s]

\* ------------------------------------------------- inputs of the column types

Codecs == {"GUID", "BooleanString", "JSON", "InternalAccountString", "InternalScopeString"}

\* dialect.name: the three names the branches test, and two they do not
NamedDialects == {"postgresql", "oracle", "mysql"}

Dialects == NamedDialects \cup {"sqlite", "mssql"}

Unset == [t |-> "unset"]

SeqsUpTo(S, n) == UNION {[1..k -> S] : k \in 0..n}

\* hex digits in both cases, a dash, and a character that is no hex digit
GuidChars == {"0", "a", "A", "-", "g"}

GuidStrings == SeqsUpTo(GuidChars, MaxStrLen)

GuidObjects == {UUIDObj(HexToInt(s)) : s \in [1..HexLen -> {"0", "a"}]}

ByteValues == {0, 10, 160}

GuidBytes == {Bytes(bs) : bs \in SeqsUpTo(ByteValues, NBytes + 1)}

CaseVariants(w) == {[i \in 1..Len(w) |-> IF m[i] THEN UpperChar(w[i]) ELSE w[i]] : m \in [1..Len(w) -> BOOLEAN]}

BoolBaseWords == {TrueStr, FalseStr, <<>>, <<"t">>, <<"t", "r", "u">>, <<"t", "r", "u", "e", "e">>, <<"f", "a", "l", "s">>, <<"y", "e", "s">>, <<"1">>, <<"n", "o", "n", "e">>}

BoolStrings == UNION {CaseVariants(w) : w \in BoolBaseWords}

InternalNames == {<<>>, <<"r", "o", "o", "t">>, <<"r", "o", "o", "t", "@", "d", "e", "f">>, <<"m", "o", "c", "k", "@", "t", "s", "t">>}

Wrappers == {[t |-> k, internal |-> s] : k \in {"InternalAccount", "InternalScope"}, s \in InternalNames}

SmallInts == {IntObj(n) : n \in 0..MaxInt}

\* values the application binds to a column of the type
BindInputs(c) ==
  CASE c = "GUID" -> {None} \cup {StrObj(s) : s \in GuidStrings} \cup GuidObjects
    [] c = "BooleanString" -> {None, BoolObj(TRUE), BoolObj(FALSE)} \cup {StrObj(s) : s \in BoolStrings} \cup SmallInts
    [] c \in {"InternalAccountString", "InternalScopeString"} -> {None} \cup {StrObj(s) : s \in InternalNames} \cup Wrappers \cup SmallInts
    [] OTHER -> {}

\* values the driver hands back from a column of the type
FetchInputs(c, d) ==
  CASE c = "GUID" /\ d \in {"oracle", "mysql"} -> {None} \cup GuidBytes \cup GuidObjects
    [] c = "GUID" /\ d \notin {"oracle", "mysql"} -> {None} \cup {StrObj(s) : s \in GuidStrings} \cup GuidObjects
    [] c = "BooleanString" -> {None} \cup {StrObj(s) : s \in BoolStrings}
    [] c \in {"InternalAccountString", "InternalScopeString"} -> {None} \cup {StrObj(s) : s \in InternalNames}
    [] OTHER -> {}

\* the class attribute impl of each type
ImplClass(c) == IF c = "GUID" THEN "CHAR" ELSE IF c = "JSON" THEN "JSON" ELSE "String"

\* the length a column type is constructed with
CtorLengths == {NoLength, IntObj(25), IntObj(255)}

NoCall == [op |-> "none"]

CodecInit ==
  /\ codec \in Codecs
  /\ dialect \in Dialects
  /\ pc \in {"load", "bind", "fetch"}
  /\ impl \in {TypeDecorator_init(ImplClass(codec), n) : n \in IF pc = "load" THEN CtorLengths ELSE {NoLength}}
  /\ value \in (CASE pc = "bind" -> BindInputs(codec) [] pc = "fetch" -> FetchInputs(codec, dialect) [] OTHER -> {Unset})
  /\ bound = Unset
  /\ result = Unset
  /\ shape = Unset

Init ==
  /\ CodecInit
  /\ distances = {}
  /\ call = NoCall

\* the storage engine asks the type for its column shape
Load(c, sh) ==
  /\ pc = "load"
  /\ codec = c
  /\ shape' = sh
  /\ pc' = "loaded"
  /\ UNCHANGED <<codec, impl, dialect, value, bound, result, distances, call>>

\* a write binds the application's value
Bind(c, out) ==
  /\ pc = "bind"
  /\ codec = c
  /\ bound' = out
  /\ pc' = "bound"
  /\ UNCHANGED <<codec, impl, dialect, value, result, shape, distances, call>>

\* a read decodes what the driver returns
Fetch(c, out) ==
  /\ pc = "fetch"
  /\ codec = c
  /\ result' = out
  /\ pc' = "fetched"
  /\ UNCHANGED <<codec, impl, dialect, value, bound, shape, distances, call>>

\* a read of what a write stored
ReadBack(c, out) ==
  /\ pc = "bound"
  /\ ~IsRaise(bound)
  /\ codec = c
  /\ result' = out
  /\ pc' = "done"
  /\ UNCHANGED <<codec, impl, dialect, value, bound, shape, distances, call>>

GUID_load == Load("GUID", GUID_load_dialect_impl(dialect))

GUID_bind == Bind("GUID", GUID_process_bind_param(value, dialect))

GUID_fetch == Fetch("GUID", GUID_process_result_value(value, dialect))

GUID_readback == ReadBack("GUID", GUID_process_result_value(bound, dialect))

BooleanString_load == Load("BooleanString", BooleanString_load_dialect_impl(impl, dialect))

BooleanString_bind == Bind("BooleanString", BooleanString_process_bind_param(value, dialect))

BooleanString_fetch == Fetch("BooleanString", BooleanString_process_result_value(value, dialect))

BooleanString_readback == ReadBack("BooleanString", BooleanString_process_result_value(bound, dialect))

JSON_load == Load("JSON", JSON_load_dialect_impl(dialect))

InternalAccountString_load == Load("InternalAccountString", InternalAccountString_load_dialect_impl(impl, dialect))

InternalAccountString_bind == Bind("InternalAccountString", InternalAccountString_process_bind_param(value, dialect))

InternalAccountString_fetch == Fetch("InternalAccountString", InternalAccountString_process_result_value(value, dialect))

InternalAccountString_readback == ReadBack("InternalAccountString", InternalAccountString_process_result_value(bound, dialect))

InternalScopeString_load == Load("InternalScopeString", InternalScopeString_load_dialect_impl(impl, dialect))

InternalScopeString_bind == Bind("InternalScopeString", InternalScopeString_process_bind_param(value, dialect))

InternalScopeString_fetch == Fetch("InternalScopeString", InternalScopeString_process_result_value(value, dialect))

InternalScopeString_readback == ReadBack("InternalScopeString", InternalScopeString_process_result_value(bound, dialect))

Next ==
  \/ GUID_load
  \/ GUID_bind
  \/ GUID_fetch
  \/ GUID_readback
  \/ BooleanString_load
  \/ BooleanString_bind
  \/ BooleanString_fetch
  \/ BooleanString_readback
  \/ JSON_load
  \/ InternalAccountString_load
  \/ InternalAccountString_bind
  \/ InternalAccountString_fetch
  \/ InternalAccountString_readback
  \/ InternalScopeString_load
  \/ InternalScopeString_bind
  \/ InternalScopeString_fetch
  \/ InternalScopeString_readback

Spec == Init /\ [][Next]_vars

\* --------------------------------------------------------- distance store

\* ids of the RSEs that exist; a distance row references two of them
Rses == {StrObj(<<"A">>), StrObj(<<"B">>)}

\* what a caller may pass as an RSE id: an id, None, or the empty string
IdArgs == Rses \cup {None, StrObj(<<>>)}

DistanceArgs == {None} \cup {IntObj(n) : n \in 0..MaxDistance}

\* Python truth value of an Optional[str]
Falsy(v) == v = None \/ (v.t = "str" /\ Len(v.s) = 0)

Distance(src, dest, d) == [src_rse_id |-> src, dest_rse_id |-> dest, distance |-> d]

Matches(r, src, dest) == r.src_rse_id = src /\ r.dest_rse_id = dest

Call(op, src, dest, d, outcome) == [op |-> op, src_rse_id |-> src, dest_rse_id |-> dest, distance |-> d, outcome |-> outcome]

\* the insert violates the table's key or its references to the RSEs
IntegrityError(src, dest) == src \notin Rses \/ dest \notin Rses \/ \E r \in distances : Matches(r, src, dest)

add_distance(src, dest, d) ==
  /\ IF IntegrityError(src, dest)
     THEN /\ call' = Call("add_distance", src, dest, d, "Duplicate")
          /\ distances' = distances
     ELSE /\ call' = Call("add_distance", src, dest, d, "return")
          /\ distances' = distances \cup {Distance(src, dest, d)}
  /\ UNCHANGED codecVars

\* DeleteWhere with or_ in place of and_
DeleteWhere_Or(rows, src, dest) == {r \in rows : ~(r.src_rse_id = src \/ r.dest_rse_id = dest)}

\* the rows a DELETE with the two-column WHERE clause leaves
DeleteWhere(rows, src, dest) == {r \in rows : ~Matches(r, src, dest)}

delete_distances(src, dest) ==
  /\ call' = Call("delete_distances", src, dest, None, "return")
  /\ IF Falsy(dest) \/ Falsy(src)
     THEN distances' = distances
     ELSE distances' = DeleteWhere(distances, src, dest)
  /\ UNCHANGED codecVars

\* the rows after an UPDATE with the two-column WHERE clause
UpdateWhere(rows, src, dest, d) == {IF Matches(r, src, dest) THEN [r EXCEPT !.distance = d] ELSE r : r \in rows}

update_distances(src, dest, d) ==
  /\ call' = Call("update_distances", src, dest, d, "return")
  /\ IF Falsy(dest) \/ Falsy(src)
     THEN distances' = distances
     ELSE distances' = UpdateWhere(distances, src, dest, d)
  /\ UNCHANGED codecVars

DistanceInit ==
  /\ distances = {}
  /\ call = NoCall
  /\ codec = "GUID"
  /\ impl = TypeDecorator_init(ImplClass("GUID"), NoLength)
  /\ dialect = "sqlite"
  /\ pc = "idle"
  /\ value = Unset
  /\ bound = Unset
  /\ result = Unset
  /\ shape = Unset

DistanceNext ==
  \/ \E src \in IdArgs, dest \in IdArgs, d \in DistanceArgs : add_distance(src, dest, d)
  \/ \E src \in IdArgs, dest \in IdArgs : delete_distances(src, dest)
  \/ \E src \in IdArgs, dest \in IdArgs, d \in DistanceArgs : update_distances(src, dest, d)

SpecDistance == DistanceInit /\ [][DistanceNext]_vars

\* -------------------------------------------------------------- properties

\* s names an identifier: hex digits of either case, HexLen of them once
\* the dashes are taken out
ValidHex(s) ==
  /\ Cardinality({i \in 1..Len(s) : s[i] # "-"}) = HexLen
  /\ \A i \in 1..Len(s) : s[i] \in {"-", "0", "1", "2", "3", "4", "5", "6", "7", "8", "9", "a", "b", "c", "d", "e", "f", "A", "B", "C", "D", "E", "F"}

\* the canonical form of an identifier given as a string: its hex digits in
\* order, dashes left out, letters in lower case
CanonicalHex(s) == Lower(SelectSeq(s, LAMBDA c : c # "-"))

\* s equals w up to the case of its letters
EqualsIgnoringCase(s, w) == s \in CaseVariants(w)

IdentityCodecs == {"InternalAccountString", "InternalScopeString"}

\* C1: for every valid identifier given as a hex string (dashes or not, any
\* letter case) and every backend, GUID.process_bind_param succeeds and
\* process_result_value of what it returned is the canonical form of the
\* identifier: the lowercase hex digits without dashes, whichever the backend.
C1_GuidRoundTrip ==
  (codec = "GUID" /\ value.t = "str" /\ ValidHex(value.s)) =>
    /\ pc \in {"bound", "done"} => ~IsRaise(bound)
    /\ pc = "done" => result = StrObj(CanonicalHex(value.s))

C1_Witness ==
  /\ codec = "GUID"
  /\ dialect = "oracle"
  /\ pc = "done"
  /\ value = StrObj(<<"0", "A", "-", "a", "0">>)
  /\ bound = Bytes(<<10, 160>>)
  /\ result = StrObj(<<"0", "a", "a", "0">>)

\* two encoded representations denote the same stored identifier: equal, or
\* texts equal up to the dashes a native UUID column ignores
SameRepresentation(a, b) == IF a.t = "str" /\ b.t = "str" THEN RemoveDashes(a.s) = RemoveDashes(b.s) ELSE a = b

\* C2: on every backend GUID.process_bind_param accepts an identifier object
\* (uuid.UUID) as well as a canonical hex string, and both forms of the same
\* identifier give the same encoded representation.
C2_AcceptsBothForms ==
  (codec = "GUID" /\ pc = "bound" /\ value.t = "UUID") =>
    /\ ~IsRaise(bound)
    /\ SameRepresentation(bound, GUID_process_bind_param(StrObj(PadHex(value.int)), dialect))

\* C3: a string that is not "true" or "false" up to case is stored by
\* BooleanString unchanged and read back as the same string, on every backend.
C3_VerbatimPassthrough ==
  (/\ codec = "BooleanString"
   /\ value.t = "str"
   /\ ~EqualsIgnoringCase(value.s, TrueStr)
   /\ ~EqualsIgnoringCase(value.s, FalseStr)) =>
    /\ pc \in {"bound", "done"} => bound = value
    /\ pc = "done" => result = value

C3_Witness ==
  /\ codec = "BooleanString"
  /\ pc = "done"
  /\ value = StrObj(<<"T", "r", "u", "E", "e">>)
  /\ bound = value
  /\ result = value

\* C4: BooleanString stores True as "true" and False as "false", stores a
\* string equal to "true"/"false" up to case as that lowercase literal, and
\* reads a stored text equal to "true" up to case as True and one equal to
\* "false" as False, on every backend.
C4_BooleanNormalization ==
  codec = "BooleanString" =>
    /\ (pc = "bound" /\ value = BoolObj(TRUE)) => bound = StrObj(TrueStr)
    /\ (pc = "bound" /\ value = BoolObj(FALSE)) => bound = StrObj(FalseStr)
    /\ (pc = "bound" /\ value.t = "str" /\ EqualsIgnoringCase(value.s, TrueStr)) => bound = StrObj(TrueStr)
    /\ (pc = "bound" /\ value.t = "str" /\ EqualsIgnoringCase(value.s, FalseStr)) => bound = StrObj(FalseStr)
    /\ (pc = "fetched" /\ value.t = "str" /\ EqualsIgnoringCase(value.s, TrueStr)) => result = BoolObj(TRUE)
    /\ (pc = "fetched" /\ value.t = "str" /\ EqualsIgnoringCase(value.s, FalseStr)) => result = BoolObj(FALSE)

C4_Witness ==
  /\ codec = "BooleanString"
  /\ pc = "fetched"
  /\ value = StrObj(<<"F", "a", "l", "s", "e">>)
  /\ result = BoolObj(FALSE)

\* C5: on every backend the process_bind_param of InternalAccountString and
\* of InternalScopeString raises InvalidType for a plain string, and for a
\* value carrying an internal form returns that internal string.
C5_IdentityBind ==
  (codec \in IdentityCodecs /\ pc = "bound") =>
    /\ value.t = "str" => bound = Raise("InvalidType")
    /\ HasInternal(value) => bound = StrObj(value.internal)

C5_Witness ==
  /\ codec = "InternalScopeString"
  /\ dialect = "postgresql"
  /\ pc = "bound"
  /\ value = StrObj(<<"r", "o", "o", "t">>)
  /\ bound = Raise("InvalidType")

C7_MalformedRejected ==
  codec = "GUID" =>
    /\ (pc = "bound" /\ value.t = "str" /\ ~ValidHex(value.s)) => IsRaise(bound)
    /\ (pc = "fetched" /\ value.t = "str" /\ ~ValidHex(value.s)) => IsRaise(result)
    /\ (pc = "fetched" /\ value.t = "bytes" /\ Len(value.bs) # NBytes) => IsRaise(result)

\* C8: on every backend the column shape the storage engine gets from
\* load_dialect_impl for BooleanString, InternalAccountString and
\* InternalScopeString is String(255).
C8_UniformShape ==
  (codec \in {"BooleanString"} \cup IdentityCodecs /\ pc = "loaded") =>
    shape = ColumnType("String", IntObj(255))

C10_DistanceFrame ==
  [][LET c == call'
         missing == Falsy(c.src_rse_id) \/ Falsy(c.dest_rse_id)
         others == {r \in distances : ~(r.src_rse_id = c.src_rse_id /\ r.dest_rse_id = c.dest_rse_id)}
         hit == distances \ others
     IN c.op \in {"delete_distances", "update_distances"} =>
          /\ c.outcome = "return"
          /\ missing => distances' = distances
          /\ (~missing /\ c.op = "delete_distances") => distances' = others
          /\ (~missing /\ c.op = "update_distances") =>
               distances' = others \cup {Distance(r.src_rse_id, r.dest_rse_id, c.distance) : r \in hit}]_vars

C10_Witness ==
  /\ call.op = "update_distances"
  /\ call.src_rse_id = StrObj(<<"A">>)
  /\ call.dest_rse_id = StrObj(<<"B">>)
  /\ call.distance = IntObj(1)
  /\ distances = {Distance(StrObj(<<"A">>), StrObj(<<"B">>), IntObj(1)), Distance(StrObj(<<"B">>), StrObj(<<"A">>), IntObj(0)), Distance(StrObj(<<"A">>), StrObj(<<"A">>), None)}

====
